---- MODULE Spec2Model ----
(***************************************************************************)
(* A model of the utility core of the ray-operator:                        *)
(*   ray-operator/controllers/ray/utils/util.go                            *)
(*   ray-operator/controllers/ray/utils/serve_httpclient.go                *)
(*                                                                         *)
(* Go strings are modelled as sequences of one-character strings, Go maps  *)
(* as records [isNil, kv] with kv a set of <<key, value>> pairs, pointers  *)
(* to integers as either the value or Nil.                                 *)
(***************************************************************************)
EXTENDS Integers, Sequences, FiniteSets, TLC

VARIABLES
    nameIn,        \* argument s of CheckName / CheckLabel
    nameOp,        \* which sanitizer ran: "none", "CheckName", "CheckLabel"
    nameOut,       \* its return value
    workerGroups,  \* cluster.Spec.WorkerGroupSpecs
    replicaOp,     \* which aggregation ran
    replicaResult, \* its outcome: [panicked, value]
    pod,           \* argument pod of PodNotMatchingTemplate
    template,      \* argument template of PodNotMatchingTemplate
    loopVarPerIteration, \* whether the build gives each loop iteration its own variable
    podOp,         \* "none" or "PodNotMatchingTemplate"
    podResult,     \* its return value
    serveSpecs,    \* argument specs of ConvertServeConfig
    serveOp,       \* "none" or "ConvertServeConfig"
    wireSpecs,     \* its return value
    dashboardURL,  \* RayDashboardClient.dashboardURL
    clientTimeout, \* RayDashboardClient.client.Timeout, in seconds
    requests,      \* the HTTP requests handed to the transport, in order
    lastCall,      \* the last client call and what it returned
    callCount,     \* how many client calls were made
    haystack,      \* argument s of Contains
    searchTerm,    \* argument searchTerm of Contains
    containsOp,    \* "none" or "Contains"
    containsResult \* its return value

vars == <<nameIn, nameOp, nameOut, workerGroups, replicaOp, replicaResult,
          pod, template, loopVarPerIteration, podOp, podResult,
          serveSpecs, serveOp, wireSpecs,
          dashboardURL, clientTimeout, requests, lastCall, callCount,
          haystack, searchTerm, containsOp, containsResult>>

nameVars == <<nameIn, nameOp, nameOut>>

replicaVars == <<workerGroups, replicaOp, replicaResult>>

podVars == <<pod, template, loopVarPerIteration, podOp, podResult>>

serveVars == <<serveSpecs, serveOp, wireSpecs>>

clientVars == <<dashboardURL, clientTimeout, requests, lastCall, callCount>>

containsVars == <<haystack, searchTerm, containsOp, containsResult>>

\* a nil pointer; a pointer to v is <<v>>
Nil == <<>>

Abs(x) == IF x < 0 THEN -x ELSE x

Min(a, b) == IF a < b THEN a ELSE b

\* the values of the variables a specification does not use
NameIdle ==
    /\ nameIn = <<>>
    /\ nameOp = "idle"
    /\ nameOut = <<>>

ReplicaIdle ==
    /\ workerGroups = <<>>
    /\ replicaOp = "idle"
    /\ replicaResult = [panicked |-> FALSE, value |-> 0]

PodIdle ==
    /\ pod = [Phase |-> "", Deleted |-> FALSE, Containers |-> <<>>]
    /\ template = <<>>
    /\ loopVarPerIteration = FALSE
    /\ podOp = "idle"
    /\ podResult = FALSE

ServeIdle ==
    /\ serveSpecs = <<>>
    /\ serveOp = "idle"
    /\ wireSpecs = <<>>

NoGraph == [ImportPath |-> "", RuntimeEnv |-> <<>>, ServeConfigSpecs |-> <<>>]

NoCall == [op |-> "none", initialised |-> FALSE, arg |-> NoGraph, err |-> "",
           sent |-> FALSE, transport |-> "none", status |-> 0, value |-> <<>>]

ClientIdle ==
    /\ dashboardURL = <<>>
    /\ clientTimeout = 0
    /\ requests = <<>>
    /\ lastCall = NoCall
    /\ callCount = 0

ContainsIdle ==
    /\ haystack = <<>>
    /\ searchTerm = <<>>
    /\ containsOp = "idle"
    /\ containsResult = FALSE

(***************************************************************************)
(* NameSanitizer: CheckName, CheckLabel (util.go)                          *)
(***************************************************************************)

\* unicode.IsDigit restricted to ASCII
AsciiDigits == {"0", "1", "2", "3", "4", "5", "6", "7", "8", "9"}

\* unicode.IsPunct restricted to ASCII: the characters of category P.
\* The symbols $ + < = > ^ ` | ~ are category S and are not punctuation.
AsciiPunct == {"!", "\"", "#", "%", "&", "'", "(", ")", "*", ",", "-", ".",
               "/", ":", ";", "?", "@", "[", "\\", "]", "_", "{", "}"}

IsDigit(c) == c \in AsciiDigits

IsPunct(c) == c \in AsciiPunct

\* maxLenght of CheckName
maxLenghtName == 50

\* maxLenght of CheckLabel
maxLenghtLabel == 63

\* s[offset:] of a Go string
SliceFrom(s, offset) == SubSeq(s, offset + 1, Len(s))

\* "r" + s[1:]
ReplaceFirst(s) == <<"r">> \o SliceFrom(s, 1)

\* a CheckName that keeps the leading maxLenght characters instead
CheckNameKeepFront(s) ==
    LET s1 == IF Len(s) > maxLenghtName THEN SubSeq(s, 1, maxLenghtName) ELSE s
        s2 == IF IsDigit(s1[1]) THEN ReplaceFirst(s1) ELSE s1
        s3 == IF IsPunct(s2[1]) THEN ReplaceFirst(s2) ELSE s2
    IN  s3

CheckName(s) ==
    LET offset == Abs(maxLenghtName - Len(s))
        s1 == IF Len(s) > maxLenghtName THEN SliceFrom(s, offset) ELSE s
        s2 == IF IsDigit(s1[1]) THEN ReplaceFirst(s1) ELSE s1
        s3 == IF IsPunct(s2[1]) THEN ReplaceFirst(s2) ELSE s2
    IN  s3

\* a CheckLabel that also rewrites a leading digit, as CheckName does
CheckLabelAlsoDigit(s) ==
    LET offset == Abs(maxLenghtLabel - Len(s))
        s1 == IF Len(s) > maxLenghtLabel THEN SliceFrom(s, offset) ELSE s
        s2 == IF IsDigit(s1[1]) THEN ReplaceFirst(s1) ELSE s1
        s3 == IF IsPunct(s2[1]) THEN ReplaceFirst(s2) ELSE s2
    IN  s3

CheckLabel(s) ==
    LET offset == Abs(maxLenghtLabel - Len(s))
        s1 == IF Len(s) > maxLenghtLabel THEN SliceFrom(s, offset) ELSE s
        s2 == IF IsPunct(s1[1]) THEN ReplaceFirst(s1) ELSE s1
    IN  s2

\* how far past the larger maximum the input names go
NameSlack == 2

\* the characters input names are made of: a letter, a digit, a punctuation
\* character and a symbol that is not punctuation
NameAlphabet == {"a", "1", "-", "$"}

NameLens == 1 .. (maxLenghtLabel + NameSlack)

\* non-empty ASCII names: a filler of alternating letters with a chosen first
\* character and one more chosen character at any position
NameOf(L, c1, p, c2) ==
    [i \in 1..L |-> IF i = p THEN c2
                    ELSE IF i = 1 THEN c1
                    ELSE IF i % 2 = 0 THEN "a" ELSE "b"]

\* the positions of the chosen character: up to the first character kept by
\* the longest truncation
NamePositions == 1 .. (maxLenghtLabel - maxLenghtName + NameSlack + 1)

NameInputs ==
    {NameOf(L, c1, p, c2) : L \in NameLens, c1 \in NameAlphabet,
                            p \in NamePositions, c2 \in NameAlphabet}

InitName ==
    /\ nameIn \in NameInputs
    /\ nameOp = "none"
    /\ nameOut = <<>>
    /\ ReplicaIdle
    /\ PodIdle
    /\ ServeIdle
    /\ ClientIdle
    /\ ContainsIdle

DoCheckName ==
    /\ nameOp = "none"
    /\ nameOp' = "CheckName"
    /\ nameOut' = CheckName(nameIn)
    /\ UNCHANGED <<nameIn, replicaVars, podVars, serveVars, clientVars, containsVars>>

DoCheckLabel ==
    /\ nameOp = "none"
    /\ nameOp' = "CheckLabel"
    /\ nameOut' = CheckLabel(nameIn)
    /\ UNCHANGED <<nameIn, replicaVars, podVars, serveVars, clientVars, containsVars>>

NextName == DoCheckName \/ DoCheckLabel

SpecName == InitName /\ [][NextName]_vars

\* the trailing min(len(s), max) characters of s
Trailing(s, max) == SubSeq(s, Len(s) - Min(Len(s), max) + 1, Len(s))

\* C6: CheckName truncates a non-empty ASCII name to its trailing
\* min(len, 50) characters and then replaces the first character of the
\* truncated name by 'r' if it is a digit or punctuation; the result is at
\* most 50 long, does not begin with a digit or punctuation, and equals the
\* truncated name in every position after the first.
C6_CheckNameSanitizes ==
    nameOp = "CheckName" =>
        LET t == Trailing(nameIn, maxLenghtName)
        IN  /\ Len(nameOut) = Len(t)
            /\ Len(nameOut) <= 50
            /\ nameOut[1] = (IF IsDigit(t[1]) \/ IsPunct(t[1]) THEN "r" ELSE t[1])
            /\ ~IsDigit(nameOut[1])
            /\ ~IsPunct(nameOut[1])
            /\ \A i \in 2..Len(t) : nameOut[i] = t[i]

\* a name longer than 50 whose truncation exposes a new leading digit or
\* punctuation character, sanitized by CheckName
C6_Witness ==
    /\ nameOp = "CheckName"
    /\ Len(nameIn) > maxLenghtName
    /\ ~IsDigit(nameIn[1]) /\ ~IsPunct(nameIn[1])
    /\ LET c == Trailing(nameIn, maxLenghtName)[1] IN IsDigit(c) \/ IsPunct(c)
    /\ nameOut[1] = "r"

\* C5 as stated: CheckLabel returns the trailing min(len, 63) characters with
\* the first one replaced by 'r' if it is a digit or a punctuation character,
\* so the label value never begins with a digit or punctuation.
C5_CheckLabelDigitOrPunct ==
    nameOp = "CheckLabel" =>
        LET t == Trailing(nameIn, maxLenghtLabel)
        IN  /\ Len(nameOut) = Len(t)
            /\ Len(nameOut) <= 63
            /\ nameOut[1] = (IF IsDigit(t[1]) \/ IsPunct(t[1]) THEN "r" ELSE t[1])
            /\ ~IsDigit(nameOut[1])
            /\ ~IsPunct(nameOut[1])
            /\ \A i \in 2..Len(t) : nameOut[i] = t[i]

\* C5 amended: CheckLabel returns the trailing min(len, 63) characters with
\* the first one replaced by 'r' if it is a punctuation character (a leading
\* digit is kept); the label value is at most 63 long and never begins with
\* a punctuation character.
C5_CheckLabelPunctOnly ==
    nameOp = "CheckLabel" =>
        LET t == Trailing(nameIn, maxLenghtLabel)
        IN  /\ Len(nameOut) = Len(t)
            /\ Len(nameOut) <= 63
            /\ nameOut[1] = (IF IsPunct(t[1]) THEN "r" ELSE t[1])
            /\ ~IsPunct(nameOut[1])
            /\ \A i \in 2..Len(t) : nameOut[i] = t[i]

\* a label value longer than 63 whose truncation exposes a leading digit,
\* which CheckLabel keeps
C5_Witness ==
    /\ nameOp = "CheckLabel"
    /\ Len(nameIn) > maxLenghtLabel
    /\ IsDigit(Trailing(nameIn, maxLenghtLabel)[1])
    /\ nameOut[1] = Trailing(nameIn, maxLenghtLabel)[1]

(***************************************************************************)
(* ReplicaAggregator: CalculateDesiredReplicas, CalculateMinReplicas,      *)
(* CalculateMaxReplicas (util.go)                                          *)
(***************************************************************************)

\* the loop `for _, nodeGroup := range groups { count += *nodeGroup.<field> }`
\* from group i on: dereferencing a nil pointer panics. The counts are int32;
\* the sums of the model stay below MaxGroups * MaxReplicaValue, far from 2^31.
RECURSIVE SumDeref(_, _, _, _)
SumDeref(groups, field, i, count) ==
    IF i > Len(groups) THEN [panicked |-> FALSE, value |-> count]
    ELSE IF groups[i][field] = Nil THEN [panicked |-> TRUE, value |-> 0]
    ELSE SumDeref(groups, field, i + 1, count + groups[i][field][1])

CalculateDesiredReplicas(groups) == SumDeref(groups, "Replicas", 1, 0)

CalculateMinReplicas(groups) == SumDeref(groups, "MinReplicas", 1, 0)

CalculateMaxReplicas(groups) == SumDeref(groups, "MaxReplicas", 1, 0)

\* the most worker groups of a cluster
MaxGroups == 2

\* the largest replica count of a group
MaxReplicaValue == 2

\* *int32 fields: unset (nil) or a count
OptCounts == {Nil} \cup {<<n>> : n \in 0..MaxReplicaValue}

WorkerGroupSpecs == [Replicas : OptCounts, MinReplicas : OptCounts, MaxReplicas : OptCounts]

WorkerGroupLists == UNION {[1..n -> WorkerGroupSpecs] : n \in 0..MaxGroups}

InitReplicas ==
    /\ workerGroups \in WorkerGroupLists
    /\ replicaOp = "none"
    /\ replicaResult = [panicked |-> FALSE, value |-> 0]
    /\ NameIdle
    /\ PodIdle
    /\ ServeIdle
    /\ ClientIdle
    /\ ContainsIdle

DoCalculateDesiredReplicas ==
    /\ replicaOp = "none"
    /\ replicaOp' = "CalculateDesiredReplicas"
    /\ replicaResult' = CalculateDesiredReplicas(workerGroups)
    /\ UNCHANGED <<workerGroups, nameVars, podVars, serveVars, clientVars, containsVars>>

DoCalculateMinReplicas ==
    /\ replicaOp = "none"
    /\ replicaOp' = "CalculateMinReplicas"
    /\ replicaResult' = CalculateMinReplicas(workerGroups)
    /\ UNCHANGED <<workerGroups, nameVars, podVars, serveVars, clientVars, containsVars>>

DoCalculateMaxReplicas ==
    /\ replicaOp = "none"
    /\ replicaOp' = "CalculateMaxReplicas"
    /\ replicaResult' = CalculateMaxReplicas(workerGroups)
    /\ UNCHANGED <<workerGroups, nameVars, podVars, serveVars, clientVars, containsVars>>

NextReplicas ==
    \/ DoCalculateDesiredReplicas
    \/ DoCalculateMinReplicas
    \/ DoCalculateMaxReplicas

SpecReplicas == InitReplicas /\ [][NextReplicas]_vars

\* the sum of a field over the groups where it is set
RECURSIVE SumOfSet(_, _, _)
SumOfSet(groups, field, i) ==
    IF i > Len(groups) THEN 0
    ELSE (IF groups[i][field] = Nil THEN 0 ELSE groups[i][field][1])
         + SumOfSet(groups, field, i + 1)

\* C2: for worker groups in which replicas, minReplicas or maxReplicas may be
\* unset, each aggregation completes without failing and returns the sum of
\* its field over the groups where it is set, an unset field counting zero.
C2_UnsetCountsAsZero ==
    /\ replicaOp = "CalculateDesiredReplicas" =>
           replicaResult = [panicked |-> FALSE,
                            value |-> SumOfSet(workerGroups, "Replicas", 1)]
    /\ replicaOp = "CalculateMinReplicas" =>
           replicaResult = [panicked |-> FALSE,
                            value |-> SumOfSet(workerGroups, "MinReplicas", 1)]
    /\ replicaOp = "CalculateMaxReplicas" =>
           replicaResult = [panicked |-> FALSE,
                            value |-> SumOfSet(workerGroups, "MaxReplicas", 1)]

(***************************************************************************)
(* PodSpecComparator: PodNotMatchingTemplate (util.go)                     *)
(***************************************************************************)

\* a resource.Quantity: "1" is [n |-> 1, unit |-> ""], "1000m" is
\* [n |-> 1000, unit |-> "m"], "2k" is [n |-> 2, unit |-> "k"]
MilliValue(q) ==
    CASE q.unit = "m"  -> q.n
      [] q.unit = ""   -> q.n * 1000
      [] q.unit = "k"  -> q.n * 1000 * 1000

\* Quantity.Cmp: -1, 0 or 1 by numeric value
Cmp(q1, q2) ==
    IF MilliValue(q1) < MilliValue(q2) THEN -1
    ELSE IF MilliValue(q1) > MilliValue(q2) THEN 1 ELSE 0

\* the value every entry of cmap points to after
\* `for _, container := range pod.Spec.Containers { cmap[container.Name] = &container }`:
\* with one variable per iteration, the last container of that name; with one
\* variable for the whole loop, the last container of the pod
CmapValue(containers, name, perIteration) ==
    IF perIteration
    THEN containers[CHOOSE i \in 1..Len(containers) :
                        /\ containers[i].Name = name
                        /\ \A j \in (i + 1)..Len(containers) : containers[j].Name # name]
    ELSE containers[Len(containers)]

\* the loop over the two resource lists of a matched pair: some quantity of
\* the template is missing in the pod or differs from it in value
ResourcesDiffer(container1, container2) ==
    \E field \in {"Requests", "Limits"} :
        \E name \in DOMAIN container1[field] :
            IF name \in DOMAIN container2[field]
            THEN Cmp(container1[field][name], container2[field][name]) # 0
            ELSE TRUE

\* the loop over template.Spec.Containers from container i on, keys being the
\* names still in cmap
RECURSIVE MatchLoop(_, _, _, _, _)
MatchLoop(tcs, pcs, perIteration, i, keys) ==
    IF i > Len(tcs) THEN keys # {}
    ELSE LET container1 == tcs[i]
         IN  IF container1.Name \notin keys THEN TRUE
             ELSE LET container2 == CmapValue(pcs, container1.Name, perIteration)
                  IN  IF container1.Image # container2.Image THEN TRUE
                      ELSE IF \/ Cardinality(DOMAIN container1.Requests)
                                   # Cardinality(DOMAIN container2.Requests)
                              \/ Cardinality(DOMAIN container1.Limits)
                                   # Cardinality(DOMAIN container2.Limits)
                           THEN TRUE
                      ELSE IF ResourcesDiffer(container1, container2) THEN TRUE
                      ELSE MatchLoop(tcs, pcs, perIteration, i + 1,
                                     keys \ {container1.Name})

PodNotMatchingTemplate(p, tcs, perIteration) ==
    IF p.Phase = "Running" /\ ~p.Deleted
    THEN IF Len(tcs) # Len(p.Containers) THEN TRUE
         ELSE MatchLoop(tcs, p.Containers, perIteration, 1,
                        {p.Containers[i].Name : i \in 1..Len(p.Containers)})
    ELSE FALSE

ContainerNames == {"ray-head", "sidecar"}

EmptyList == [name \in {} |-> 0]

CpuOnly(q) == [name \in {"cpu"} |-> q]

One == [n |-> 1, unit |-> ""]

Two == [n |-> 2, unit |-> ""]

ThousandMilli == [n |-> 1000, unit |-> "m"]

TwoKilo == [n |-> 2, unit |-> "k"]

CpuAndMemory == [name \in {"cpu", "memory"} |-> IF name = "cpu" THEN One ELSE TwoKilo]

MemoryOnly == [name \in {"memory"} |-> TwoKilo]

\* the image and resources of a container: a base shape and the shapes that
\* differ from it in the image, the requests or the limits
BaseShape == [Image |-> "ray:1.0", Requests |-> CpuOnly(One), Limits |-> CpuOnly(One)]

ContainerShapes ==
    {BaseShape, [BaseShape EXCEPT !.Image = "ray:2.0"]}
      \cup {[BaseShape EXCEPT !.Requests = r] :
                r \in {EmptyList, CpuOnly(Two), CpuOnly(ThousandMilli)}}
      \cup {[BaseShape EXCEPT !.Limits = l] :
                l \in {CpuAndMemory, CpuOnly(Two), MemoryOnly}}

Containers ==
    {[Name |-> n, Image |-> s.Image, Requests |-> s.Requests, Limits |-> s.Limits] :
        n \in ContainerNames, s \in ContainerShapes}

\* the most containers of a pod or a template
MaxContainers == 2

\* container lists as the API server admits them: non-empty, names unique
ContainerLists ==
    {cs \in UNION {[1..n -> Containers] : n \in 1..MaxContainers} :
        \A i, j \in 1..Len(cs) : cs[i].Name = cs[j].Name => i = j}

InitPod ==
    /\ template \in ContainerLists
    /\ \E cs \in ContainerLists, ph \in {"Running", "Pending"}, del \in BOOLEAN :
           pod = [Phase |-> ph, Deleted |-> del, Containers |-> cs]
    /\ loopVarPerIteration \in BOOLEAN
    /\ podOp = "none"
    /\ podResult = FALSE
    /\ NameIdle
    /\ ReplicaIdle
    /\ ServeIdle
    /\ ClientIdle
    /\ ContainsIdle

DoPodNotMatchingTemplate ==
    /\ podOp = "none"
    /\ podOp' = "PodNotMatchingTemplate"
    /\ podResult' = PodNotMatchingTemplate(pod, template, loopVarPerIteration)
    /\ UNCHANGED <<pod, template, loopVarPerIteration, nameVars, replicaVars,
                   serveVars, clientVars, containsVars>>

NextPod == DoPodNotMatchingTemplate

SpecPod == InitPod /\ [][NextPod]_vars

\* two resource lists with the same names and numerically equal quantities
SameResources(r1, r2) ==
    /\ DOMAIN r1 = DOMAIN r2
    /\ \A name \in DOMAIN r1 : MilliValue(r1[name]) = MilliValue(r2[name])

\* the pod container named as c, looked up by name
ByName(cs, name) == cs[CHOOSE i \in 1..Len(cs) : cs[i].Name = name]

NamesOf(cs) == {cs[i].Name : i \in 1..Len(cs)}

RunningNotDeleted == pod.Phase = "Running" /\ ~pod.Deleted

\* C3: PodNotMatchingTemplate returns false for a running pod with no
\* deletion timestamp whose containers, matched to the template's by name,
\* have the same names, images, requests and limits, for any number and any
\* order of containers.
C3_SameContainersNoDrift ==
    ( /\ podOp = "PodNotMatchingTemplate"
      /\ RunningNotDeleted
      /\ NamesOf(pod.Containers) = NamesOf(template)
      /\ \A i \in 1..Len(template) :
            LET c1 == template[i]
                c2 == ByName(pod.Containers, c1.Name)
            IN  /\ c1.Image = c2.Image
                /\ SameResources(c1.Requests, c2.Requests)
                /\ SameResources(c1.Limits, c2.Limits) )
    => podResult = FALSE

\* C4: for a running pod with no deletion timestamp, PodNotMatchingTemplate
\* returns true whenever a template container and the pod container of the
\* same name differ in image, in the number of requests or limits entries, or
\* in the value of a quantity present in both, wherever that container is.
C4_DifferenceIsDrift ==
    ( /\ podOp = "PodNotMatchingTemplate"
      /\ RunningNotDeleted
      /\ \E i \in 1..Len(template) :
            /\ template[i].Name \in NamesOf(pod.Containers)
            /\ LET c1 == template[i]
                   c2 == ByName(pod.Containers, c1.Name)
               IN  \/ c1.Image # c2.Image
                   \/ Cardinality(DOMAIN c1.Requests) # Cardinality(DOMAIN c2.Requests)
                   \/ Cardinality(DOMAIN c1.Limits) # Cardinality(DOMAIN c2.Limits)
                   \/ \E field \in {"Requests", "Limits"} :
                          \E name \in DOMAIN c1[field] \cap DOMAIN c2[field] :
                              MilliValue(c1[field][name]) # MilliValue(c2[field][name]) )
    => podResult = TRUE

(***************************************************************************)
(* ConfigTranslator: ConvertServeConfig (serve_httpclient.go)              *)
(***************************************************************************)

\* make(map[string]interface{})
EmptyMap == [isNil |-> FALSE, kv |-> {}]

\* a nil map
NilMap == [isNil |-> TRUE, kv |-> {}]

YamlKeys == {"a", "b"}

YamlDigits == {"1", "2"}

DigitValue(c) == IF c = "1" THEN 1 ELSE 2

\* the YAML document of a text, for the texts of the model: the empty
\* document is null, `k: v` is a mapping, letters, digits and colons without
\* a following space are one plain scalar, anything else does not parse
ParseYaml(text) ==
    IF Len(text) = 0 THEN [kind |-> "null", kv |-> {}]
    ELSE IF /\ Len(text) = 4
            /\ text[1] \in YamlKeys /\ text[2] = ":" /\ text[3] = " "
            /\ text[4] \in YamlDigits
         THEN [kind |-> "mapping", kv |-> {<<text[1], DigitValue(text[4])>>}]
    ELSE IF \A i \in 1..Len(text) : text[i] \in YamlKeys \cup YamlDigits \cup {":"}
         THEN [kind |-> "scalar", kv |-> {}]
    ELSE [kind |-> "syntaxError", kv |-> {}]

\* yaml.Unmarshal([]byte(text), &into) for a map: a text that does not parse,
\* or is no mapping, is an error and leaves the map alone; null sets it to
\* nil; a mapping stores its entries into it
Unmarshal(text, into) ==
    LET doc == ParseYaml(text)
    IN  CASE doc.kind = "syntaxError" -> [err |-> TRUE, map |-> into]
          [] doc.kind = "scalar"      -> [err |-> TRUE, map |-> into]
          [] doc.kind = "null"        -> [err |-> FALSE, map |-> NilMap]
          [] doc.kind = "mapping"     ->
                [err |-> FALSE,
                 map |-> [isNil |-> FALSE,
                          kv |-> {e \in into.kv : \A d \in doc.kv : d[1] # e[1]}
                                    \cup doc.kv]]

\* a translation that decodes the four blobs of a spec into one shared map
ConvertOneSharedMap(config) ==
    LET userConfig == Unmarshal(config.UserConfig, EmptyMap).map
        autoscalingConfig == Unmarshal(config.AutoscalingConfig, userConfig).map
        runtimeEnv == Unmarshal(config.RayActorOptions.RuntimeEnv, autoscalingConfig).map
        resources == Unmarshal(config.RayActorOptions.Resources, runtimeEnv).map
    IN  [Name                      |-> config.Name,
         NumReplicas               |-> config.NumReplicas,
         RoutePrefix               |-> config.RoutePrefix,
         MaxConcurrentQueries      |-> config.MaxConcurrentQueries,
         UserConfig                |-> userConfig,
         AutoscalingConfig         |-> autoscalingConfig,
         GracefulShutdownWaitLoopS |-> config.GracefulShutdownWaitLoopS,
         GracefulShutdownTimeoutS  |-> config.GracefulShutdownTimeoutS,
         HealthCheckPeriodS        |-> config.HealthCheckPeriodS,
         HealthCheckTimeoutS       |-> config.GracefulShutdownTimeoutS,
         RayActorOptions |->
            [RuntimeEnv        |-> runtimeEnv,
             NumCpus           |-> config.RayActorOptions.NumCpus,
             NumGpus           |-> config.RayActorOptions.NumGpus,
             Memory            |-> config.RayActorOptions.Memory,
             ObjectStoreMemory |-> config.RayActorOptions.ObjectStoreMemory,
             Resources         |-> resources,
             AcceleratorType   |-> config.RayActorOptions.AcceleratorType]]

\* the body of the loop of ConvertServeConfig: the wire spec of one config
ConvertOne(config) ==
    LET userConfig == Unmarshal(config.UserConfig, EmptyMap).map
        autoscalingConfig == Unmarshal(config.AutoscalingConfig, EmptyMap).map
        runtimeEnv == Unmarshal(config.RayActorOptions.RuntimeEnv, EmptyMap).map
        resources == Unmarshal(config.RayActorOptions.Resources, EmptyMap).map
    IN  [Name                      |-> config.Name,
         NumReplicas               |-> config.NumReplicas,
         RoutePrefix               |-> config.RoutePrefix,
         MaxConcurrentQueries      |-> config.MaxConcurrentQueries,
         UserConfig                |-> userConfig,
         AutoscalingConfig         |-> autoscalingConfig,
         GracefulShutdownWaitLoopS |-> config.GracefulShutdownWaitLoopS,
         GracefulShutdownTimeoutS  |-> config.GracefulShutdownTimeoutS,
         HealthCheckPeriodS        |-> config.HealthCheckPeriodS,
         HealthCheckTimeoutS       |-> config.GracefulShutdownTimeoutS,
         RayActorOptions |->
            [RuntimeEnv        |-> runtimeEnv,
             NumCpus           |-> config.RayActorOptions.NumCpus,
             NumGpus           |-> config.RayActorOptions.NumGpus,
             Memory            |-> config.RayActorOptions.Memory,
             ObjectStoreMemory |-> config.RayActorOptions.ObjectStoreMemory,
             Resources         |-> resources,
             AcceleratorType   |-> config.RayActorOptions.AcceleratorType]]

ConvertServeConfig(specs) == [i \in 1..Len(specs) |-> ConvertOne(specs[i])]

\* blob texts: empty, a mapping, a plain scalar, a text that does not parse
EmptyText == <<>>

MappingText == <<"a", ":", " ", "1">>

ScalarText == <<"a", ":", "1">>

BrokenText == <<"{">>

BlobTexts == {EmptyText, MappingText, ScalarText, BrokenText}

\* the scalar fields of a spec: all unset, all set with the two timeouts
\* equal, all set with the two timeouts different
ScalarsUnset ==
    [Name |-> "d1", NumReplicas |-> Nil, RoutePrefix |-> "",
     MaxConcurrentQueries |-> Nil, GracefulShutdownWaitLoopS |-> Nil,
     GracefulShutdownTimeoutS |-> Nil, HealthCheckPeriodS |-> Nil,
     HealthCheckTimeoutS |-> Nil, NumCpus |-> Nil, NumGpus |-> Nil,
     Memory |-> Nil, ObjectStoreMemory |-> Nil, AcceleratorType |-> ""]

ScalarsSet ==
    [Name |-> "d2", NumReplicas |-> <<2>>, RoutePrefix |-> "/d2",
     MaxConcurrentQueries |-> <<10>>, GracefulShutdownWaitLoopS |-> <<3>>,
     GracefulShutdownTimeoutS |-> <<5>>, HealthCheckPeriodS |-> <<4>>,
     HealthCheckTimeoutS |-> <<5>>, NumCpus |-> <<1>>, NumGpus |-> <<0>>,
     Memory |-> <<6>>, ObjectStoreMemory |-> <<7>>, AcceleratorType |-> "T4"]

ScalarsTimeoutsDiffer ==
    [ScalarsSet EXCEPT !.Name = "d3", !.HealthCheckTimeoutS = <<9>>]

ScalarProfiles == {ScalarsUnset, ScalarsSet, ScalarsTimeoutsDiffer}

\* a rayv1alpha1.ServeConfigSpec
SpecOf(sc, userConfig, autoscalingConfig, runtimeEnv, resources) ==
    [Name                      |-> sc.Name,
     NumReplicas               |-> sc.NumReplicas,
     RoutePrefix               |-> sc.RoutePrefix,
     MaxConcurrentQueries      |-> sc.MaxConcurrentQueries,
     UserConfig                |-> userConfig,
     AutoscalingConfig         |-> autoscalingConfig,
     GracefulShutdownWaitLoopS |-> sc.GracefulShutdownWaitLoopS,
     GracefulShutdownTimeoutS  |-> sc.GracefulShutdownTimeoutS,
     HealthCheckPeriodS        |-> sc.HealthCheckPeriodS,
     HealthCheckTimeoutS       |-> sc.HealthCheckTimeoutS,
     RayActorOptions |->
        [RuntimeEnv        |-> runtimeEnv,
         NumCpus           |-> sc.NumCpus,
         NumGpus           |-> sc.NumGpus,
         Memory            |-> sc.Memory,
         ObjectStoreMemory |-> sc.ObjectStoreMemory,
         Resources         |-> resources,
         AcceleratorType   |-> sc.AcceleratorType]]

\* any spec
FreeSpecs ==
    {SpecOf(sc, u, a, e, r) : sc \in ScalarProfiles,
                              u \in BlobTexts, a \in BlobTexts,
                              e \in BlobTexts, r \in BlobTexts}

\* the specs whose four blobs are the same text, a mapping or a broken one
SimpleSpecs ==
    {SpecOf(sc, b, b, b, b) : sc \in ScalarProfiles, b \in {MappingText, BrokenText}}

\* the most specs of a list
MaxSpecs == 2

\* a list of n specs: any spec at place k, simple ones elsewhere
ServeSpecList(n, k, free, others) == [i \in 1..n |-> IF i = k THEN free ELSE others[i]]

InitServe ==
    /\ \E n \in 0..MaxSpecs, k \in 1..MaxSpecs :
         \E free \in FreeSpecs, others \in [1..n -> SimpleSpecs] :
            serveSpecs = ServeSpecList(n, k, free, others)
    /\ serveOp = "none"
    /\ wireSpecs = <<>>
    /\ NameIdle
    /\ ReplicaIdle
    /\ PodIdle
    /\ ClientIdle
    /\ ContainsIdle

DoConvertServeConfig ==
    /\ serveOp = "none"
    /\ serveOp' = "ConvertServeConfig"
    /\ wireSpecs' = ConvertServeConfig(serveSpecs)
    /\ UNCHANGED <<serveSpecs, nameVars, replicaVars, podVars, clientVars, containsVars>>

NextServe == DoConvertServeConfig

SpecServe == InitServe /\ [][NextServe]_vars

\* C1: ConvertServeConfig returns, at the same index, a wire spec whose
\* scalar fields each equal the same-named field of the input spec, the
\* HealthCheckTimeoutS included, and likewise the scalar actor options.
C1_ScalarsCopied ==
    serveOp = "ConvertServeConfig" =>
        /\ Len(wireSpecs) = Len(serveSpecs)
        /\ \A i \in 1..Len(serveSpecs) :
            LET in == serveSpecs[i]
                out == wireSpecs[i]
            IN  /\ out.Name = in.Name
                /\ out.NumReplicas = in.NumReplicas
                /\ out.RoutePrefix = in.RoutePrefix
                /\ out.MaxConcurrentQueries = in.MaxConcurrentQueries
                /\ out.GracefulShutdownWaitLoopS = in.GracefulShutdownWaitLoopS
                /\ out.GracefulShutdownTimeoutS = in.GracefulShutdownTimeoutS
                /\ out.HealthCheckPeriodS = in.HealthCheckPeriodS
                /\ out.HealthCheckTimeoutS = in.HealthCheckTimeoutS
                /\ out.RayActorOptions.NumCpus = in.RayActorOptions.NumCpus
                /\ out.RayActorOptions.NumGpus = in.RayActorOptions.NumGpus
                /\ out.RayActorOptions.Memory = in.RayActorOptions.Memory
                /\ out.RayActorOptions.ObjectStoreMemory = in.RayActorOptions.ObjectStoreMemory
                /\ out.RayActorOptions.AcceleratorType = in.RayActorOptions.AcceleratorType

\* whether a blob text fails to decode into a mapping
DecodeFails(text) == ParseYaml(text).kind \in {"syntaxError", "scalar"}

\* what a blob text alone decodes to
DecodedAlone(text) ==
    IF DecodeFails(text) THEN EmptyMap
    ELSE IF ParseYaml(text).kind = "null" THEN NilMap
    ELSE [isNil |-> FALSE, kv |-> ParseYaml(text).kv]

\* C7: ConvertServeConfig returns a list of the same length in the same
\* order; each of the four blobs of a spec that fails to decode yields an
\* empty mapping, and every blob's wire value is what its own text decodes
\* to, whatever the other blobs of the spec and the other specs hold.
C7_DecodeFailuresDegrade ==
    serveOp = "ConvertServeConfig" =>
        /\ Len(wireSpecs) = Len(serveSpecs)
        /\ \A i \in 1..Len(serveSpecs) :
            LET in == serveSpecs[i]
                out == wireSpecs[i]
            IN  /\ out.Name = in.Name
                /\ out.UserConfig = DecodedAlone(in.UserConfig)
                /\ out.AutoscalingConfig = DecodedAlone(in.AutoscalingConfig)
                /\ out.RayActorOptions.RuntimeEnv = DecodedAlone(in.RayActorOptions.RuntimeEnv)
                /\ out.RayActorOptions.Resources = DecodedAlone(in.RayActorOptions.Resources)
                /\ DecodeFails(in.UserConfig) => out.UserConfig = EmptyMap
                /\ DecodeFails(in.AutoscalingConfig) => out.AutoscalingConfig = EmptyMap
                /\ DecodeFails(in.RayActorOptions.RuntimeEnv)
                       => out.RayActorOptions.RuntimeEnv = EmptyMap
                /\ DecodeFails(in.RayActorOptions.Resources)
                       => out.RayActorOptions.Resources = EmptyMap

\* two specs translated, the first with a user config that fails to decode
\* next to an autoscaling config that decodes, the second decoding
C7_Witness ==
    /\ serveOp = "ConvertServeConfig"
    /\ Len(serveSpecs) = 2
    /\ DecodeFails(serveSpecs[1].UserConfig)
    /\ serveSpecs[1].AutoscalingConfig = MappingText
    /\ wireSpecs[1].UserConfig = EmptyMap
    /\ wireSpecs[1].AutoscalingConfig.kv = {<<"a", 1>>}
    /\ wireSpecs[2].UserConfig.kv = {<<"a", 1>>}

(***************************************************************************)
(* DashboardSyncClient: InitClient, GetDeployments, UpdateDeployments,     *)
(* GetDeploymentsStatus (serve_httpclient.go)                              *)
(***************************************************************************)

DeployPath == "/api/serve/deployments/"

StatusPath == "/api/serve/deployments/status"

\* the Timeout of InitClient, in seconds
ClientTimeoutSeconds == 2

\* the hosts url.Parse rejects: a space is no character of a host name
UnparsableHosts == {"bad host:8265"}

Urls == {"raycluster-head-svc:8265"} \cup UnparsableHosts

\* http.NewRequest fails when the URL does not parse
NewRequestFails(url) == \E i \in 1..Len(url) : url[i] \in UnparsableHosts

\* what the transport does with one request: fail, or deliver a response
StatusCodes == {200, 500}

StatusBody == <<"{", "app_status", ":", "RUNNING", "}">>

HtmlBody == <<"<html>">>

Outcomes ==
    {[kind |-> "error", status |-> 0, body |-> <<>>]}
      \cup {[kind |-> "response", status |-> s, body |-> b] :
                s \in StatusCodes, b \in {StatusBody, HtmlBody}}

\* json.Unmarshal(body, &serveStatuses): the body must be a JSON object
UnmarshalStatuses(body) ==
    IF /\ Len(body) = 5
       /\ body[1] = "{" /\ body[2] = "app_status" /\ body[3] = ":" /\ body[5] = "}"
    THEN [err |-> FALSE, value |-> <<body[4]>>]
    ELSE [err |-> TRUE, value |-> <<>>]

\* json.Marshal of a map field tagged omitempty
JsonMap(key, m) == IF m.kv = {} THEN {} ELSE {<<key, m.kv>>}

\* json.Marshal of a pointer field tagged omitempty
JsonPtr(key, ptr) == IF ptr = Nil THEN {} ELSE {<<key, ptr[1]>>}

\* json.Marshal of a string field tagged omitempty
JsonStr(key, s) == IF s = "" THEN {} ELSE {<<key, s>>}

\* json.Marshal of a RayActorOptionSpec
JsonActorOptions(o) ==
    JsonMap("runtime_env", o.RuntimeEnv) \cup JsonPtr("num_cpus", o.NumCpus)
      \cup JsonPtr("num_gpus", o.NumGpus) \cup JsonPtr("memory", o.Memory)
      \cup JsonPtr("object_store_memory", o.ObjectStoreMemory)
      \cup JsonMap("resources", o.Resources)
      \cup JsonStr("accelerator_type", o.AcceleratorType)

\* json.Marshal of a wire ServeConfigSpec
JsonServeConfig(c) ==
    {<<"name", c.Name>>} \cup JsonPtr("num_replicas", c.NumReplicas)
      \cup JsonStr("route_prefix", c.RoutePrefix)
      \cup JsonPtr("max_concurrent_queries", c.MaxConcurrentQueries)
      \cup JsonMap("user_config", c.UserConfig)
      \cup JsonMap("autoscaling_config", c.AutoscalingConfig)
      \cup JsonPtr("graceful_shutdown_wait_loop_s", c.GracefulShutdownWaitLoopS)
      \cup JsonPtr("graceful_shutdown_timeout_s", c.GracefulShutdownTimeoutS)
      \cup JsonPtr("health_check_period_s", c.HealthCheckPeriodS)
      \cup JsonPtr("health_check_timeout_s", c.HealthCheckTimeoutS)
      \cup {<<"ray_actor_options", JsonActorOptions(c.RayActorOptions)>>}

\* json.Marshal of a ServingClusterDeployments; the values of the maps were
\* decoded from YAML, so encoding them does not fail
JsonDeployments(d) ==
    {<<"import_path", d.ImportPath>>} \cup JsonMap("runtime_env", d.RuntimeEnv)
      \cup (IF Len(d.Deployments) = 0 THEN {}
            ELSE {<<"deployments",
                    [i \in 1..Len(d.Deployments) |-> JsonServeConfig(d.Deployments[i])]>>})

NoBody == {}

\* a request that is sent once more when the transport fails
RoundTripRetry(method, path, contentType, body, outcome) ==
    LET url == dashboardURL \o <<path>>
        entry == [method |-> method, url |-> url, contentType |-> contentType,
                  body |-> body, result |-> outcome.kind]
    IN  IF NewRequestFails(url)
        THEN [err |-> "request", sent |-> FALSE, log |-> requests]
        ELSE IF outcome.kind = "error"
        THEN [err |-> "transport", sent |-> TRUE,
              log |-> Append(Append(requests, entry), entry)]
        ELSE [err |-> "", sent |-> TRUE, log |-> Append(requests, entry)]

\* http.NewRequest(method, r.dashboardURL+path, body) and r.client.Do(req)
RoundTrip(method, path, contentType, body, outcome) ==
    LET url == dashboardURL \o <<path>>
        entry == [method |-> method, url |-> url, contentType |-> contentType,
                  body |-> body, result |-> outcome.kind]
    IN  IF NewRequestFails(url)
        THEN [err |-> "request", sent |-> FALSE, log |-> requests]
        ELSE IF outcome.kind = "error"
        THEN [err |-> "transport", sent |-> TRUE, log |-> Append(requests, entry)]
        ELSE [err |-> "", sent |-> TRUE, log |-> Append(requests, entry)]

\* what a call records of itself
CallOf(op, graph, rt, outcome, err, value) ==
    [op |-> op, initialised |-> dashboardURL # <<>>, arg |-> graph, err |-> err,
     sent |-> rt.sent,
     transport |-> IF rt.sent THEN outcome.kind ELSE "none",
     status |-> IF rt.sent THEN outcome.status ELSE 0,
     value |-> value]

GetDeployments(outcome) ==
    LET rt == RoundTrip("GET", DeployPath, "", NoBody, outcome)
    IN  [log |-> rt.log,
         call |-> CallOf("GetDeployments", NoGraph, rt, outcome, rt.err,
                         IF rt.err = "" THEN outcome.body ELSE <<>>)]

\* an UpdateDeployments that reports a response that is not 2xx as an error
UpdateDeploymentsCheckStatus(graph, outcome) ==
    LET runtimeEnv == Unmarshal(graph.RuntimeEnv, EmptyMap).map
        servingClusterDeployments ==
            [ImportPath  |-> graph.ImportPath,
             RuntimeEnv  |-> runtimeEnv,
             Deployments |-> ConvertServeConfig(graph.ServeConfigSpecs)]
        deploymentJson == JsonDeployments(servingClusterDeployments)
        rt == RoundTrip("PUT", DeployPath, "application/json", deploymentJson, outcome)
    IN  [log |-> rt.log,
         call |-> CallOf("UpdateDeployments", graph, rt, outcome,
                         IF rt.err = "" /\ outcome.status >= 300 THEN "status" ELSE rt.err,
                         <<>>)]

UpdateDeployments(graph, outcome) ==
    LET runtimeEnv == Unmarshal(graph.RuntimeEnv, EmptyMap).map
        servingClusterDeployments ==
            [ImportPath  |-> graph.ImportPath,
             RuntimeEnv  |-> runtimeEnv,
             Deployments |-> ConvertServeConfig(graph.ServeConfigSpecs)]
        deploymentJson == JsonDeployments(servingClusterDeployments)
        rt == RoundTrip("PUT", DeployPath, "application/json", deploymentJson, outcome)
    IN  [log |-> rt.log,
         call |-> CallOf("UpdateDeployments", graph, rt, outcome, rt.err, <<>>)]

GetDeploymentsStatus(outcome) ==
    LET rt == RoundTrip("GET", StatusPath, "", NoBody, outcome)
        decoded == UnmarshalStatuses(outcome.body)
    IN  [log |-> rt.log,
         call |-> CallOf("GetDeploymentsStatus", NoGraph, rt, outcome,
                         IF rt.err # "" THEN rt.err
                         ELSE IF decoded.err THEN "decode" ELSE "",
                         IF rt.err = "" /\ ~decoded.err THEN decoded.value ELSE <<>>)]

\* the most client calls of a run
MaxCalls == 3

\* the deployment graphs pushed: the runtime environment decodes or not, the
\* specs are none, one that decodes, one with blobs that do not
Graphs ==
    {[ImportPath |-> "app.graph", RuntimeEnv |-> env, ServeConfigSpecs |-> specs] :
        env \in {MappingText, BrokenText},
        specs \in {<<>>,
                   <<SpecOf(ScalarsSet, MappingText, MappingText, MappingText, MappingText),
                     SpecOf(ScalarsTimeoutsDiffer, BrokenText, MappingText, ScalarText, EmptyText)>>}}

\* the transport of a client that was never initialised has no scheme to
\* dial and fails
Possible(outcome) == dashboardURL = <<>> => outcome.kind = "error"

InitClientSpec ==
    /\ dashboardURL = <<>>
    /\ clientTimeout = 0
    /\ requests = <<>>
    /\ lastCall = NoCall
    /\ callCount = 0
    /\ NameIdle
    /\ ReplicaIdle
    /\ PodIdle
    /\ ServeIdle
    /\ ContainsIdle

InitClient ==
    \E url \in Urls :
        /\ clientTimeout' = ClientTimeoutSeconds
        /\ dashboardURL' = <<"http://", url>>
        /\ UNCHANGED <<requests, lastCall, callCount,
                       nameVars, replicaVars, podVars, serveVars, containsVars>>

DoGetDeployments ==
    /\ callCount < MaxCalls
    /\ \E outcome \in Outcomes :
        /\ Possible(outcome)
        /\ requests' = GetDeployments(outcome).log
        /\ lastCall' = GetDeployments(outcome).call
    /\ callCount' = callCount + 1
    /\ UNCHANGED <<dashboardURL, clientTimeout,
                   nameVars, replicaVars, podVars, serveVars, containsVars>>

DoUpdateDeployments ==
    /\ callCount < MaxCalls
    /\ \E graph \in Graphs, outcome \in Outcomes :
        /\ Possible(outcome)
        /\ requests' = UpdateDeployments(graph, outcome).log
        /\ lastCall' = UpdateDeployments(graph, outcome).call
    /\ callCount' = callCount + 1
    /\ UNCHANGED <<dashboardURL, clientTimeout,
                   nameVars, replicaVars, podVars, serveVars, containsVars>>

DoGetDeploymentsStatus ==
    /\ callCount < MaxCalls
    /\ \E outcome \in Outcomes :
        /\ Possible(outcome)
        /\ requests' = GetDeploymentsStatus(outcome).log
        /\ lastCall' = GetDeploymentsStatus(outcome).call
    /\ callCount' = callCount + 1
    /\ UNCHANGED <<dashboardURL, clientTimeout,
                   nameVars, replicaVars, podVars, serveVars, containsVars>>

NextClient ==
    \/ InitClient
    \/ DoGetDeployments
    \/ DoUpdateDeployments
    \/ DoGetDeploymentsStatus

SpecClient == InitClientSpec /\ [][NextClient]_vars

\* C8: on an initialised client UpdateDeployments returns nil exactly when
\* the PUT to the deployments endpoint was sent and its round trip ended
\* without a transport error, whatever the status code, the response body
\* and the blobs that failed to decode.
C8_SuccessIsRoundTrip ==
    (lastCall.op = "UpdateDeployments" /\ lastCall.initialised) =>
        /\ lastCall.err = "" <=> (lastCall.sent /\ lastCall.transport = "response")
        /\ lastCall.sent =>
              LET req == requests[Len(requests)]
              IN  /\ req.method = "PUT"
                  /\ req.url[Len(req.url)] = DeployPath
                  /\ req.contentType = "application/json"

\* an UpdateDeployments of a graph whose runtime environment and user config
\* do not decode, answered 500, returned nil
C8_Witness ==
    /\ lastCall.op = "UpdateDeployments"
    /\ lastCall.initialised
    /\ DecodeFails(lastCall.arg.RuntimeEnv)
    /\ Len(lastCall.arg.ServeConfigSpecs) = 2
    /\ DecodeFails(lastCall.arg.ServeConfigSpecs[2].UserConfig)
    /\ lastCall.status = 500
    /\ lastCall.err = ""

\* the method and path a call requests
MethodOf(op) == IF op = "UpdateDeployments" THEN "PUT" ELSE "GET"

PathOf(op) == IF op = "GetDeploymentsStatus" THEN StatusPath ELSE DeployPath

\* C9: on an initialised client every GetDeployments, UpdateDeployments and
\* GetDeploymentsStatus call issues at most one HTTP request, of its method
\* and path, and none after a transport failure; a transport failure is the
\* call's error; no call changes the base URL or the timeout, so the calls
\* after a failed one find the client as it was.
C9_OneRequestNoRetry ==
    [][(callCount' = callCount + 1 /\ dashboardURL # <<>>) =>
          /\ Len(requests') <= Len(requests) + 1
          /\ SubSeq(requests', 1, Len(requests)) = requests
          /\ Len(requests') = Len(requests) + 1 =>
                LET req == requests'[Len(requests')]
                IN  /\ req.method = MethodOf(lastCall'.op)
                    /\ req.url = dashboardURL \o <<PathOf(lastCall'.op)>>
          /\ lastCall'.transport = "error" =>
                /\ lastCall'.err = "transport"
                /\ Len(requests') = Len(requests) + 1
          /\ dashboardURL' = dashboardURL
          /\ clientTimeout' = clientTimeout]_vars

\* a call that failed in the transport followed by a call that succeeded,
\* one request each, on the client as InitClient left it
C9_Witness ==
    /\ callCount = 2
    /\ Len(requests) = 2
    /\ requests[1].result = "error"
    /\ requests[2].result = "response"
    /\ lastCall.err = ""
    /\ clientTimeout = ClientTimeoutSeconds
    /\ requests[1].url[2] = requests[2].url[2]

(***************************************************************************)
(* Contains (util.go)                                                      *)
(***************************************************************************)

\* the byte of a character
Byte(c) == CASE c = "a" -> 97 [] c = "b" -> 98 [] c = "c" -> 99

\* s < t for Go strings: bytewise lexicographic order
RECURSIVE Less(_, _)
Less(s, t) ==
    IF Len(t) = 0 THEN FALSE
    ELSE IF Len(s) = 0 THEN TRUE
    ELSE IF Byte(s[1]) # Byte(t[1]) THEN Byte(s[1]) < Byte(t[1])
    ELSE Less(Tail(s), Tail(t))

\* the loop of sort.Search(len(a), func(i) { return a[i] >= x }) on the
\* zero-based indices i and j
RECURSIVE Search(_, _, _, _)
Search(a, x, i, j) ==
    IF i < j
    THEN LET h == (i + j) \div 2
         IN  IF Less(a[h + 1], x) THEN Search(a, x, h + 1, j)
             ELSE Search(a, x, i, h)
    ELSE i

SearchStrings(a, x) == Search(a, x, 0, Len(a))

\* a Contains that trusts the index without comparing the element
ContainsIndexOnly(s, term) ==
    LET i == SearchStrings(s, term)
    IN  i < Len(s)

Contains(s, term) ==
    LET i == SearchStrings(s, term)
    IN  i < Len(s) /\ s[i + 1] = term

\* the longest identifier
MaxIdLen == 1

\* the longest sequence searched
MaxHaystack == 3

Ids == UNION {[1..n -> {"a", "b", "c"}] : n \in 0..MaxIdLen}

InitContains ==
    /\ haystack \in UNION {[1..n -> Ids] : n \in 0..MaxHaystack}
    /\ searchTerm \in Ids
    /\ containsOp = "none"
    /\ containsResult = FALSE
    /\ NameIdle
    /\ ReplicaIdle
    /\ PodIdle
    /\ ServeIdle
    /\ ClientIdle

DoContains ==
    /\ containsOp = "none"
    /\ containsOp' = "Contains"
    /\ containsResult' = Contains(haystack, searchTerm)
    /\ UNCHANGED <<haystack, searchTerm, nameVars, replicaVars, podVars, serveVars, clientVars>>

NextContains == DoContains

SpecContains == InitContains /\ [][NextContains]_vars

SortedAscending(s) == \A i \in 1..(Len(s) - 1) : ~Less(s[i + 1], s[i])

IsElement(s, term) == \E i \in 1..Len(s) : s[i] = term

\* C10: for an ascending-sorted sequence Contains returns true exactly when
\* the term is an element of it, and for any sequence, sorted or not, it
\* returns true only if the term is an element.
C10_BinarySearchMembership ==
    containsOp = "Contains" =>
        /\ SortedAscending(haystack) =>
              (containsResult <=> IsElement(haystack, searchTerm))
        /\ containsResult => IsElement(haystack, searchTerm)

\* a sorted sequence of three different identifiers searched for its last
C10_Witness ==
    /\ containsOp = "Contains"
    /\ Len(haystack) = 3
    /\ Less(haystack[1], haystack[2]) /\ Less(haystack[2], haystack[3])
    /\ searchTerm = haystack[3]
    /\ containsResult = TRUE

\* the reliance on the order: on some unsorted sequence Contains misses an
\* element, so membership without the sortedness premise does not hold
C10_UnsortedAlsoExact ==
    containsOp = "Contains" => (containsResult <=> IsElement(haystack, searchTerm))

====
